---- MODULE Spec2Model ----
(***************************************************************************)
(* A model of the Aptoide metadata service (app/main.py, app/models.py):   *)
(* the GET /aptoide request handler with its single outbound call, and the *)
(* three pure helpers format_size, format_downloads and parse_certificate. *)
(*                                                                         *)
(* Representation of Python values:                                        *)
(*   - None is the empty tuple and a present value v is <<v>>;             *)
(*   - a dict is a function from keys to values, {} is the empty function; *)
(*   - a str that the code only passes on is a TLA+ string; a str that the *)
(*     code takes apart (the certificate owner) is a tuple of characters;  *)
(*   - an int is held in two limbs [hi, lo] (Python ints are unbounded,    *)
(*     TLC's are 32 bits wide): value = hi * base + lo, the base being     *)
(*     2^30 for byte counts and 10^9 for download counts;                  *)
(*   - a float is an IEEE-754 double, modelled exactly (see below).        *)
(***************************************************************************)
EXTENDS Integers, Sequences, FiniteSets, TLC

VARIABLES
    pydantic,   \* major version of the pydantic build AppResponse runs on
    pc,         \* pc[r]: where request r stands
    param,      \* param[r]: the package_name query parameter, None if not sent
    invoked,    \* invoked[r]: get_aptoide_app was called for r
    client,     \* client[r]: the httpx.AsyncClient r created, None before
    open,       \* the clients created and not yet closed
    nextClient, \* identity of the next client object
    sent,       \* sent[r]: the outbound GETs of r, each its query parameter
    upstream,   \* upstream[r]: what the outbound GET came to
    built,      \* built[r]: number of AppResponse records constructed for r
    response,   \* response[r]: the terminal response of r, None before
    fn,         \* the helper a helper-level specification exercises
    arg,        \* its argument
    called,     \* whether it has been applied
    ret         \* its outcome

reqVars == <<pydantic, pc, param, invoked, client, open, nextClient, sent,
             upstream, built, response>>
fnVars == <<fn, arg, called, ret>>
vars == <<pydantic, pc, param, invoked, client, open, nextClient, sent,
          upstream, built, response, fn, arg, called, ret>>

----------------------------------------------------------------------------
(* Python values *)

None == <<>>
Some(v) == <<v>>
EmptyDict == <<>>

\* dict.get(key): None when the key is missing
Get(d, key) == IF key \in DOMAIN d THEN Some(d[key]) ELSE None

\* dict.get(key, default)
GetOr(d, key, default) == IF key \in DOMAIN d THEN d[key] ELSE default

RECURSIVE Pow2(_)
Pow2(i) == IF i = 0 THEN 1 ELSE 2 * Pow2(i - 1)

\* int.bit_length()
RECURSIVE BitLen(_)
BitLen(n) == IF n = 0 THEN 0 ELSE 1 + BitLen(n \div 2)

\* HalfEven rounding a half up instead
HalfUp(n, cmp) == IF cmp < 0 THEN n ELSE n + 1

\* round half to even of (n + f) where f is below, at or above 1/2 (cmp < 0, = 0, > 0)
HalfEven(n, cmp) ==
    IF cmp < 0 THEN n
    ELSE IF cmp > 0 THEN n + 1
    ELSE IF n % 2 = 0 THEN n ELSE n + 1

Sign(x) == IF x < 0 THEN -1 ELSE IF x > 0 THEN 1 ELSE 0

----------------------------------------------------------------------------
(* Integers and floats of format_size.  A byte count is [hi, lo] with      *)
(* value hi * 2^30 + lo.  A float is [hi, lo, exp], the double of value    *)
(* (hi * 2^30 + lo) / 1024^exp: a double whose significand, hi * 2^30 + lo,*)
(* has at most MantissaBits bits.                                          *)

MantissaBits == 53

LimbBits == 30

Limb == Pow2(LimbBits)

\* float(n) for an int n >= 0: the nearest double, ties to the even significand
ToFloat(n) ==
    LET drop == BitLen(n.hi) + LimbBits - MantissaBits
    IN  IF drop <= 0 THEN [hi |-> n.hi, lo |-> n.lo, exp |-> 0]
        ELSE LET q == n.lo \div Pow2(drop)
                 rem == (n.lo % Pow2(drop))
                 kept == HalfEven(q, Sign(rem - Pow2(drop - 1))) * Pow2(drop)
             IN  IF kept = Limb
                 THEN [hi |-> n.hi + 1, lo |-> 0, exp |-> 0]
                 ELSE [hi |-> n.hi, lo |-> kept, exp |-> 0]

\* size /= 1024: exact, 1024 = 2^10 and only the exponent of a double changes
DivKiB(size) == [size EXCEPT !.exp = @ + 1]

\* size < 1024, that is hi * 2^30 + lo < 2^(10 * (exp + 1))
LessThanKiB(size) ==
    LET sh == 10 * (size.exp + 1)
    IN  IF sh < LimbBits THEN size.hi = 0 /\ size.lo < Pow2(sh)
        ELSE size.hi < Pow2(sh - LimbBits)

\* the integer f"{size:.0f}" prints: the double rounded half to even
RoundFloat(size) ==
    LET sh == 10 * size.exp
    IN  IF sh = 0 THEN size.hi * Limb + size.lo
        ELSE IF sh < LimbBits
        THEN HalfEven(size.hi * Pow2(LimbBits - sh) + (size.lo \div Pow2(sh)),
                      Sign((size.lo % Pow2(sh)) - Pow2(sh - 1)))
        ELSE LET n == size.hi \div Pow2(sh - LimbBits)
                 rh == size.hi % Pow2(sh - LimbBits)
             IN  IF sh = LimbBits
                 THEN HalfEven(n, Sign(size.lo - Pow2(LimbBits - 1)))
                 ELSE HalfEven(n, IF rh # Pow2(sh - LimbBits - 1)
                                  THEN Sign(rh - Pow2(sh - LimbBits - 1))
                                  ELSE Sign(size.lo))

\* f"{size:.0f} {unit}"
FormatFloat0(size, unit) == ToString(RoundFloat(size)) \o " " \o unit

units == <<"B", "KB", "MB", "GB">>

\* SizeFits as `size <= 1024`
SizeFitsInclusive(size) ==
    LET sh == 10 * (size.exp + 1)
    IN  \/ LessThanKiB(size)
        \/ sh < LimbBits /\ size.hi = 0 /\ size.lo = Pow2(sh)
        \/ sh >= LimbBits /\ size.hi = Pow2(sh - LimbBits) /\ size.lo = 0

\* `size < 1024` of the loop
SizeFits(size) == LessThanKiB(size)

\* for unit in units: if size < 1024: return ...; size /= 1024  -- then TB
RECURSIVE SizeLoop(_, _)
SizeLoop(size, i) ==
    IF i > Len(units) THEN FormatFloat0(size, "TB")
    ELSE IF SizeFits(size) THEN FormatFloat0(size, units[i])
    ELSE SizeLoop(DivKiB(size), i + 1)

\* `not bytes_value`: None and 0 are falsy
NotInt(v) == v = None \/ (v[1].hi = 0 /\ v[1].lo = 0)

format_size(bytes_value) ==
    IF NotInt(bytes_value) THEN None
    ELSE Some(SizeLoop(ToFloat(bytes_value[1]), 1))

----------------------------------------------------------------------------
(* format_downloads.  A download count is [hi, lo] with value              *)
(* hi * 10^9 + lo.  downloads / k is the double nearest the exact quotient *)
(* (CPython's int / int is correctly rounded); f"{x:.0f}" rounds that      *)
(* double half to even.  The double is held as [n, cmp]: n the floor of    *)
(* the exact quotient and cmp the side of n + 1/2 the double lies on.      *)

Thousand == 1000

Million == 1000000

Billion == 1000000000

\* downloads >= k, for k <= 10^9
AtLeast(d, k) == d.hi > 0 \/ d.lo >= k

\* divmod(downloads, k): k = 10^9, or downloads < 10^9
DivMod(d, k) ==
    IF k = Billion THEN [q |-> d.hi, r |-> d.lo]
    ELSE [q |-> d.lo \div k, r |-> d.lo % k]

\* downloads / k for downloads >= k.  With e = floor(log2 n) the doubles
\* around n + 1/2 are 2^(e-52) apart and n + 1/2 is one of them, with an even
\* significand: the quotient n + r/k rounds to it iff |r/k - 1/2| <= 2^(e-53),
\* that is iff |2r - k| * 2^(53-1-e) <= k; otherwise it stays on its side.
TrueDiv(d, k) ==
    LET dm == DivMod(d, k)
        off == 2 * dm.r - k
        gap == IF off < 0 THEN -off ELSE off
        sh == MantissaBits - BitLen(dm.q)
        atHalf == IF sh >= LimbBits THEN gap = 0 ELSE gap <= k \div Pow2(sh)
    IN  [n |-> dm.q, cmp |-> IF atHalf THEN 0 ELSE Sign(off)]

\* f"{x:.0f}{suffix}"
FormatQuotient0(x, suffix) == ToString(HalfEven(x.n, x.cmp)) \o suffix

format_downloads(downloads) ==
    IF NotInt(downloads) THEN None
    ELSE LET d == downloads[1]
         IN  IF AtLeast(d, Billion)
             THEN Some(FormatQuotient0(TrueDiv(d, Billion), "B"))
             ELSE IF AtLeast(d, Million)
             THEN Some(FormatQuotient0(TrueDiv(d, Million), "M"))
             ELSE IF AtLeast(d, Thousand)
             THEN Some(FormatQuotient0(TrueDiv(d, Thousand), "K"))
             ELSE Some(ToString(d.lo))

----------------------------------------------------------------------------
(* parse_certificate.  The owner is a tuple of characters.                 *)

Whitespace == {" ", "\t", "\n"}

\* sep in s
Contains(s, sep) == \E i \in 1..Len(s) : s[i] = sep

\* index of the first sep in s (s contains one)
Find(s, sep) == CHOOSE i \in 1..Len(s) : s[i] = sep /\ \A j \in 1..(i - 1) : s[j] # sep

\* s.split(sep, maxsplit); maxsplit = -1 splits at every sep
RECURSIVE Split(_, _, _)
Split(s, sep, maxsplit) ==
    IF maxsplit = 0 \/ ~Contains(s, sep) THEN <<s>>
    ELSE LET i == Find(s, sep)
         IN  <<SubSeq(s, 1, i - 1)>>
                 \o Split(SubSeq(s, i + 1, Len(s)), sep, maxsplit - 1)

\* s.strip()
RECURSIVE Strip(_)
Strip(s) ==
    IF s = <<>> THEN s
    ELSE IF s[1] \in Whitespace THEN Strip(Tail(s))
    ELSE IF s[Len(s)] \in Whitespace THEN Strip(SubSeq(s, 1, Len(s) - 1))
    ELSE s

\* SplitPair as kv.split("="), without maxsplit
SplitPairAll(kv) == Split(kv, "=", -1)

\* kv.split("=", 1)
SplitPair(kv) == Split(kv, "=", 1)

\* SetItem as kv_pairs.setdefault(key, value): the first value of a key stays
SetDefault(d, key, value) ==
    [k \in DOMAIN d \cup {key} |-> IF k \in DOMAIN d THEN d[k] ELSE value]

\* kv_pairs[key] = value
SetItem(d, key, value) ==
    [k \in DOMAIN d \cup {key} |-> IF k = key THEN value ELSE d[k]]

\* the loop over owner.split(","): st is [raised, kv_pairs]; unpacking
\* `key, value = ...` raises ValueError unless the split has two parts
RECURSIVE PairsLoop(_, _)
PairsLoop(segs, st) ==
    IF segs = <<>> \/ st.raised THEN st
    ELSE LET kv == Head(segs)
         IN  IF ~Contains(kv, "=") THEN PairsLoop(Tail(segs), st)
             ELSE LET parts == SplitPair(kv)
                  IN  IF Len(parts) # 2
                      THEN [st EXCEPT !.raised = TRUE]
                      ELSE PairsLoop(Tail(segs),
                               [st EXCEPT !.kv_pairs =
                                   SetItem(@, Strip(parts[1]), Strip(parts[2]))])

\* the dict returned for an object without owner (or no object)
NoOwnerResult == EmptyDict

\* cert_obj is None or <<dict>>; the outcome is [raised, value]
parse_certificate(cert_obj) ==
    IF cert_obj = None \/ DOMAIN cert_obj[1] = {} \/ "owner" \notin DOMAIN cert_obj[1]
    THEN [raised |-> FALSE, value |-> NoOwnerResult]
    ELSE LET owner == cert_obj[1]["owner"]
             st == PairsLoop(Split(owner, ",", -1),
                             [raised |-> FALSE, kv_pairs |-> EmptyDict])
         IN  IF st.raised THEN [raised |-> TRUE, value |-> EmptyDict]
             ELSE [raised |-> FALSE,
                   value |-> [developer_cn |-> Get(st.kv_pairs, <<"C", "N">>),
                              organization |-> Get(st.kv_pairs, <<"O">>),
                              local |-> Get(st.kv_pairs, <<"L">>),
                              state_city |-> Get(st.kv_pairs, <<"S", "T">>),
                              country |-> Get(st.kv_pairs, <<"C">>)]]

----------------------------------------------------------------------------
(* The response model and the endpoint. *)

Fields ==
    {"name", "size", "downloads", "version", "release_date", "min_screen",
     "supported_cpu", "package_id", "sha1_signature",
     "developer_cn", "organization", "local", "country", "state_city"}

\* The builds of pydantic: under 1.x an Optional[str] field without a default
\* defaults to None, under 2.x it is required
PydanticMajors == {1, 2}

FieldRequired(major) == major >= 2

\* AppResponse(**kwargs): [raised, value]; raised is pydantic's ValidationError
AppResponse(kwargs, major) ==
    IF FieldRequired(major) /\ Fields \ DOMAIN kwargs # {}
    THEN [raised |-> TRUE, value |-> EmptyDict]
    ELSE [raised |-> FALSE,
          value |-> [f \in Fields |-> IF f \in DOMAIN kwargs THEN kwargs[f] ELSE None]]

APTOIDE_URL == "https://ws75.aptoide.com/api/7/apps/search"

\* a terminal response; built counts the AppResponse constructions behind it
Response(status, detail, body, n) ==
    [status |-> status, detail |-> detail, body |-> body, built |-> n]

\* raise HTTPException(status_code, detail), rendered by the framework
HTTPException(status_code, detail) == Response(status_code, detail, None, 0)

\* an exception that is no HTTPException: the server's 500
InternalServerError(n) == Response(500, "Internal Server Error", None, n)

NoUpstream == [kind |-> "none", text |-> "", status |-> 0, json |-> EmptyDict]

\* the detail of a failed connection
ConnectionDetail(text) == "Connection error while requesting Aptoide: " \o text

\* fetch_from_aptoide once client.get is over: [raised, exc, value]
fetch_from_aptoide(up) ==
    IF up.kind = "raised"
    THEN [raised |-> TRUE, value |-> EmptyDict,
          exc |-> HTTPException(500, ConnectionDetail(up.text))]
    ELSE IF up.status # 200
    THEN [raised |-> TRUE, value |-> EmptyDict,
          exc |-> HTTPException(500, "Aptoide API error: HTTP " \o ToString(up.status))]
    ELSE [raised |-> FALSE, value |-> up.json, exc |-> HTTPException(0, "")]

\* apps = data.get("datalist", {}).get("list", [])
AppsOf(data) == GetOr(GetOr(data, "datalist", EmptyDict), "list", <<>>)

\* SelectApp taking the last result, apps[-1]
SelectLast(apps) == apps[Len(apps)]

\* app_data = apps[0]
SelectApp(apps) == apps[1]

\* the keyword arguments of AppResponse(...)
ResponseKwargs(app_data, file_data, signature, cert_fields) ==
    [name |-> Get(app_data, "name"),
     size |-> format_size(Get(app_data, "size")),
     downloads |-> format_downloads(Get(app_data, "downloads")),
     version |-> Get(file_data, "vername"),
     release_date |-> Get(file_data, "added"),
     min_screen |-> Get(file_data, "screensize"),
     supported_cpu |-> Get(file_data, "cpu"),
     package_id |-> Get(app_data, "package"),
     sha1_signature |-> Get(signature, "sha1")] @@ cert_fields

\* NoApps as `if apps is None` would have it: a list is never None
NoAppsIsNone(apps) == FALSE

\* `if not apps`
NoApps(apps) == apps = <<>>

\* get_aptoide_app from the return of the fetch on
get_aptoide_app(fetched, major) ==
    IF fetched.raised THEN fetched.exc
    ELSE LET apps == AppsOf(fetched.value)
         IN  IF NoApps(apps) THEN HTTPException(404, "Package not found")
             ELSE IF Len(apps) = 0 THEN InternalServerError(0) \* apps[0]: IndexError
             ELSE LET app_data == SelectApp(apps)
                      file_data == GetOr(app_data, "file", EmptyDict)
                      signature == GetOr(file_data, "signature", EmptyDict)
                      cert == parse_certificate(Some(signature))
                  IN  IF cert.raised THEN InternalServerError(0)
                      ELSE LET model == AppResponse(
                                   ResponseKwargs(app_data, file_data, signature,
                                                  cert.value), major)
                           IN  IF model.raised THEN InternalServerError(1)
                               ELSE Response(200, "", Some(model.value), 1)

----------------------------------------------------------------------------
(* The inputs of the request-level specification. *)

MaxListLen == 2

\* two requests, handled concurrently
Requests == {1, 2}

PackageNames == {"com.test.app"}

ErrorTexts == {"All connection attempts failed", "timed out"}

ErrorStatuses == {404, 503}

Int30(n) == [hi |-> 0, lo |-> n]

KiBytes20 == 1024 * 1024 * 20

TestOwner ==
    <<"C", "N", "=", "D", "e", "v", ",", " ", "O", "=", "O", "r", "g", ",", " ",
      "L", "=", "C", "i", "t", "y", ",", " ", "S", "T", "=", "S", "t", "a", "t",
      "e", ",", " ", "C", "=", "U", "S">>

TestFile ==
    [vername |-> "1.0.0", added |-> "2025-01-01", screensize |-> "SMALL",
     cpu |-> "arm64-v8a"]

\* the result of tests/test_api.py::test_valid_response
TestApp ==
    [name |-> "Test App", size |-> Int30(KiBytes20), downloads |-> Int30(2000000),
     package |-> "com.test.app",
     file |-> TestFile @@ [signature |-> [sha1 |-> "AA:BB:CC", owner |-> TestOwner]]]

\* first results with parts of the nested structure missing
Apps ==
    {TestApp,
     [name |-> "No File", size |-> Int30(1536), package |-> "a.b"],
     [name |-> "No Signature", downloads |-> Int30(999500), file |-> TestFile],
     [name |-> "No Owner", size |-> Int30(0),
      file |-> [vername |-> "2.0", signature |-> [sha1 |-> "DD:EE"]]],
     [package |-> "c.d",
      file |-> [cpu |-> "x86", signature |-> [owner |-> <<" ", "O", "=", "X", " ">>]]]}

RECURSIVE ListsOf(_, _)
ListsOf(S, n) ==
    IF n = 0 THEN {<<>>}
    ELSE LET shorter == ListsOf(S, n - 1)
         IN  shorter \cup {<<x>> \o l : x \in S, l \in {m \in shorter : Len(m) = n - 1}}

\* the JSON bodies a 200 answer carries
Payloads ==
    {EmptyDict, [datalist |-> EmptyDict], [info |-> "OK"]}
        \cup {[datalist |-> [list |-> l]] : l \in ListsOf(Apps, MaxListLen)}

----------------------------------------------------------------------------
(* The request-level state machine: one action per step of a request      *)
(* between two suspension points of its coroutine.                         *)

FnIdle ==
    /\ fn = "none"
    /\ arg = None
    /\ called = FALSE
    /\ ret = None

Init ==
    /\ pydantic \in PydanticMajors
    /\ pc = [r \in Requests |-> "idle"]
    /\ param = [r \in Requests |-> None]
    /\ invoked = [r \in Requests |-> FALSE]
    /\ client = [r \in Requests |-> None]
    /\ open = {}
    /\ nextClient = 1
    /\ sent = [r \in Requests |-> <<>>]
    /\ upstream = [r \in Requests |-> NoUpstream]
    /\ built = [r \in Requests |-> 0]
    /\ response = [r \in Requests |-> None]
    /\ FnIdle

\* the framework's answer to a request without the required package_name
ValidationError == Response(422, "Field required", None, 0)

\* MissingRequired for `package_name: str = None`: nothing is required
MissingRequiredNever(p) == FALSE

\* `package_name: str` has no default: the query parameter is required
MissingRequired(p) == p = None

\* GET /aptoide arrives: the framework answers 422 without calling the
\* handler when a required parameter is missing
Receive(r, p) ==
    /\ pc[r] = "idle"
    /\ param' = [param EXCEPT ![r] = p]
    /\ IF MissingRequired(p)
       THEN /\ response' = [response EXCEPT ![r] = Some(ValidationError)]
            /\ pc' = [pc EXCEPT ![r] = "done"]
            /\ UNCHANGED invoked
       ELSE /\ invoked' = [invoked EXCEPT ![r] = TRUE]
            /\ pc' = [pc EXCEPT ![r] = "handler"]
            /\ UNCHANGED response
    /\ UNCHANGED <<pydantic, client, open, nextClient, sent, upstream, built>>
    /\ UNCHANGED fnVars

\* the client object `httpx.AsyncClient(timeout=10)` evaluates to
NewClient(r, fresh) == fresh

\* async with httpx.AsyncClient(timeout=10) as client: a new client is entered
EnterClient(r) ==
    /\ pc[r] = "handler"
    /\ client' = [client EXCEPT ![r] = Some(NewClient(r, nextClient))]
    /\ open' = open \cup {NewClient(r, nextClient)}
    /\ nextClient' = nextClient + 1
    /\ pc' = [pc EXCEPT ![r] = "entered"]
    /\ UNCHANGED <<pydantic, param, invoked, sent, upstream, built, response>>
    /\ UNCHANGED fnVars

\* await client.get(APTOIDE_URL, params={"query": package_name}) is issued
SendGet(r) ==
    /\ pc[r] = "entered"
    /\ sent' = [sent EXCEPT ![r] = Append(@, [url |-> APTOIDE_URL, query |-> param[r]])]
    /\ pc' = [pc EXCEPT ![r] = "awaiting"]
    /\ UNCHANGED <<pydantic, param, invoked, client, open, nextClient, upstream,
                   built, response>>
    /\ UNCHANGED fnVars

\* AfterGet with a retry: a raised client.get is issued again
AfterGetRetry(up) == IF up.kind = "raised" THEN "entered" ELSE "exiting"

\* where the coroutine goes once client.get is over: out of the with block
AfterGet(up) == "exiting"

\* client.get raises: no connection, or the 10 second timeout
GetRaises(r, text) ==
    /\ pc[r] = "awaiting"
    /\ upstream' = [upstream EXCEPT ![r] =
                       [kind |-> "raised", text |-> text, status |-> 0, json |-> EmptyDict]]
    /\ pc' = [pc EXCEPT ![r] = AfterGet(upstream'[r])]
    /\ UNCHANGED <<pydantic, param, invoked, client, open, nextClient, sent,
                   built, response>>
    /\ UNCHANGED fnVars

\* client.get returns a response; its body is read when the status is 200
GetReturns(r, status, json) ==
    /\ pc[r] = "awaiting"
    /\ upstream' = [upstream EXCEPT ![r] =
                       [kind |-> "response", text |-> "", status |-> status, json |-> json]]
    /\ pc' = [pc EXCEPT ![r] = AfterGet(upstream'[r])]
    /\ UNCHANGED <<pydantic, param, invoked, client, open, nextClient, sent,
                   built, response>>
    /\ UNCHANGED fnVars

\* ReleaseClient closing the client only after a returned client.get
ReleaseClientOnReturn(clients, c, up) ==
    IF up.kind = "raised" THEN clients ELSE clients \ {c}

\* the clients left open when the with block of a request is left
ReleaseClient(clients, c, up) == clients \ {c}

\* the with block is left (by return or by exception), which closes the
\* client; the rest of the handler runs to the terminal response
ExitClient(r) ==
    /\ pc[r] = "exiting"
    /\ open' = ReleaseClient(open, client[r][1], upstream[r])
    /\ LET res == get_aptoide_app(fetch_from_aptoide(upstream[r]), pydantic)
       IN  /\ response' = [response EXCEPT ![r] = Some(res)]
           /\ built' = [built EXCEPT ![r] = res.built]
    /\ pc' = [pc EXCEPT ![r] = "done"]
    /\ UNCHANGED <<pydantic, param, invoked, client, nextClient, sent, upstream>>
    /\ UNCHANGED fnVars

Next ==
    \/ \E r \in Requests, p \in {None} \cup {Some(n) : n \in PackageNames} : Receive(r, p)
    \/ \E r \in Requests : EnterClient(r)
    \/ \E r \in Requests : SendGet(r)
    \/ \E r \in Requests, text \in ErrorTexts : GetRaises(r, text)
    \/ \E r \in Requests, status \in ErrorStatuses : GetReturns(r, status, EmptyDict)
    \/ \E r \in Requests, json \in Payloads : GetReturns(r, 200, json)
    \/ \E r \in Requests : ExitClient(r)

Spec == Init /\ [][Next]_vars

----------------------------------------------------------------------------
(* The helper-level specification: a helper is applied to one argument.   *)

MaxDelta == 1

MaxOwnerLen == 3

MaxSegments == 2

\* the values within MaxDelta of a value of S
Near(S) == {c + d : c \in S, d \in (-MaxDelta)..MaxDelta}

SizeLos ==
    {x \in Near({0, 1024, 1536, 2560, Pow2(20) - 512, Pow2(20), 3 * Pow2(19),
                 5 * Pow2(19), 20 * Pow2(20), Pow2(29), Limb}) : 0 <= x /\ x < Limb}

SizeHis ==
    {x \in Near({0, 1024, 1536, 2560, Pow2(23), Pow2(23) + 512, Pow2(23) + 1536}) :
        0 <= x}

SizeArgs == {None} \cup {Some([hi |-> h, lo |-> l]) : h \in SizeHis, l \in SizeLos}

DownloadLos ==
    {x \in Near({0, Thousand, 1500, 2500, 999500, Million, 1500000, 2500000,
                 999500000, 500000000, Billion}) : 0 <= x /\ x < Billion}

DownloadHis == {x \in Near({1, 2, Pow2(24)}) : 0 <= x}

DownloadArgs ==
    {None} \cup {Some([hi |-> h, lo |-> l]) : h \in DownloadHis, l \in DownloadLos}

Alphabet == {"C", "N", "=", ",", " ", "x"}

RECURSIVE Strings(_, _)
Strings(S, n) ==
    IF n = 0 THEN {<<>>}
    ELSE LET shorter == Strings(S, n - 1)
         IN  shorter \cup {<<x>> \o l : x \in S, l \in {m \in shorter : Len(m) = n - 1}}

Segments ==
    {<<"C", "N", "=", "a">>, <<" ", "O", " ", "=", " ", "b", " ">>, <<"L", "=", "c">>,
     <<"S", "T", "=", "d">>, <<"C", "=", "e">>, <<"C", "=", "f", "=", "g">>,
     <<"n", "o">>, <<>>, <<"X", "=", "z">>, <<"=", "v">>, <<"C", "N", "=">>,
     <<"c", "n", "=", "q">>, <<"\t", "C", "=", "h", "\n">>}

\* ",".join(segs)
RECURSIVE Join(_)
Join(segs) ==
    IF Len(segs) = 1 THEN segs[1] ELSE segs[1] \o <<",">> \o Join(Tail(segs))

Owners ==
    Strings(Alphabet, MaxOwnerLen)
        \cup {Join(l) : l \in ListsOf(Segments, MaxSegments) \ {<<>>}}
        \cup {TestOwner}

CertArgs ==
    {None, Some(EmptyDict), Some([sha1 |-> "AA:BB:CC"])}
        \cup {Some([owner |-> o]) : o \in Owners}

ReqIdle ==
    /\ pydantic = 2
    /\ pc = [r \in Requests |-> "idle"]
    /\ param = [r \in Requests |-> None]
    /\ invoked = [r \in Requests |-> FALSE]
    /\ client = [r \in Requests |-> None]
    /\ open = {}
    /\ nextClient = 1
    /\ sent = [r \in Requests |-> <<>>]
    /\ upstream = [r \in Requests |-> NoUpstream]
    /\ built = [r \in Requests |-> 0]
    /\ response = [r \in Requests |-> None]

InitFn ==
    /\ ReqIdle
    /\ called = FALSE
    /\ ret = None
    /\ \/ fn = "format_size" /\ arg \in SizeArgs
       \/ fn = "format_downloads" /\ arg \in DownloadArgs
       \/ fn = "parse_certificate" /\ arg \in CertArgs

CallFormatSize ==
    /\ fn = "format_size" /\ ~called
    /\ called' = TRUE
    /\ ret' = format_size(arg)
    /\ UNCHANGED <<fn, arg>>
    /\ UNCHANGED reqVars

CallFormatDownloads ==
    /\ fn = "format_downloads" /\ ~called
    /\ called' = TRUE
    /\ ret' = format_downloads(arg)
    /\ UNCHANGED <<fn, arg>>
    /\ UNCHANGED reqVars

CallParseCertificate ==
    /\ fn = "parse_certificate" /\ ~called
    /\ called' = TRUE
    /\ ret' = parse_certificate(arg)
    /\ UNCHANGED <<fn, arg>>
    /\ UNCHANGED reqVars

NextFn == CallFormatSize \/ CallFormatDownloads \/ CallParseCertificate

SpecFn == InitFn /\ [][NextFn]_vars

----------------------------------------------------------------------------
(* Properties of the request-level specification (Spec). *)

Done(r) == pc[r] = "done"

\* request r is over and its outbound GET returned status 200
Done200(r) == Done(r) /\ upstream[r].kind = "response" /\ upstream[r].status = 200

\* the result list of a payload is missing or empty
ListMissingOrEmpty(json) ==
    \/ "datalist" \notin DOMAIN json
    \/ "list" \notin DOMAIN json["datalist"]
    \/ json["datalist"]["list"] = <<>>

\* the value at a path of nested dicts, None when a key on the way is missing
RECURSIVE At(_, _)
At(obj, path) ==
    IF path = <<>> THEN Some(obj)
    ELSE IF Head(path) \in DOMAIN obj THEN At(obj[Head(path)], Tail(path))
    ELSE None

FirstResult(r) == upstream[r].json["datalist"]["list"][1]

\* C1: a request whose fetch succeeded with a missing or empty result list ends
\* with 404 "Package not found", and no AppResponse is built for it.
C1_EmptyListIs404 ==
    \A r \in Requests :
        (Done200(r) /\ ListMissingOrEmpty(upstream[r].json))
            => /\ response[r] # None
               /\ response[r][1].status = 404
               /\ response[r][1].detail = "Package not found"
               /\ response[r][1].body = None
               /\ built[r] = 0

C1_Witness ==
    /\ Done200(1) /\ upstream[1].json = [datalist |-> [list |-> <<>>]]
    /\ Done200(2) /\ "datalist" \notin DOMAIN upstream[2].json
    /\ response[1][1].status = 404 /\ response[2][1].status = 404

\* C2: a request whose outbound GET raised or returned a status other than 200
\* ends with a 500 whose detail carries the cause, and no request ever issues a
\* second outbound GET.
C2_UpstreamFailureIs500NoRetry ==
    \A r \in Requests :
        /\ Len(sent[r]) <= 1
        /\ (Done(r) /\ upstream[r].kind = "raised")
               => /\ response[r][1].status = 500
                  /\ response[r][1].detail =
                         "Connection error while requesting Aptoide: " \o upstream[r].text
                  /\ Len(sent[r]) = 1
        /\ (Done(r) /\ upstream[r].kind = "response" /\ upstream[r].status # 200)
               => /\ response[r][1].status = 500
                  /\ response[r][1].detail =
                         "Aptoide API error: HTTP " \o ToString(upstream[r].status)
                  /\ Len(sent[r]) = 1

C2_Witness ==
    /\ Done(1) /\ upstream[1].kind = "raised" /\ upstream[1].text = "timed out"
    /\ Done(2) /\ upstream[2].kind = "response" /\ upstream[2].status = 503
    /\ response[1][1].status = 500 /\ response[2][1].status = 500

\* the certificate field of a first result, None without signature or owner
CertValue(a, f) ==
    LET parsed == parse_certificate(At(a, <<"file", "signature">>)).value
    IN  IF f \in DOMAIN parsed THEN parsed[f] ELSE None

\* the field-by-field mapping of one result
FieldMapping(a) ==
    [name |-> At(a, <<"name">>),
     size |-> format_size(At(a, <<"size">>)),
     downloads |-> format_downloads(At(a, <<"downloads">>)),
     version |-> At(a, <<"file", "vername">>),
     release_date |-> At(a, <<"file", "added">>),
     min_screen |-> At(a, <<"file", "screensize">>),
     supported_cpu |-> At(a, <<"file", "cpu">>),
     package_id |-> At(a, <<"package">>),
     sha1_signature |-> At(a, <<"file", "signature", "sha1">>),
     developer_cn |-> CertValue(a, "developer_cn"),
     organization |-> CertValue(a, "organization"),
     local |-> CertValue(a, "local"),
     state_city |-> CertValue(a, "state_city"),
     country |-> CertValue(a, "country")]

\* the first result lacks the file, the signature, the owner or a certificate key
LacksNested(a) ==
    \/ At(a, <<"file", "signature", "owner">>) = None
    \/ \E f \in {"developer_cn", "organization", "local", "state_city", "country"} :
           CertValue(a, f) = None

\* C3: a first result that lacks the file, the signature, the owner or
\* certificate keys never fails the request: it ends with 200, the fields of the
\* missing data null and the others mapped.
C3_MissingNestedDataIs200 ==
    \A r \in Requests :
        (Done200(r) /\ ~ListMissingOrEmpty(upstream[r].json) /\ LacksNested(FirstResult(r)))
            => /\ response[r][1].status = 200
               /\ response[r][1].body = Some(FieldMapping(FirstResult(r)))

\* the payload of r cut down to its first result
FirstOnly(r) ==
    [upstream[r] EXCEPT !.json = [datalist |-> [list |-> <<FirstResult(r)>>]]]

\* C4: a 200 response is the field-by-field mapping of the first result, and
\* the response is the one the first result alone would get.
C4_FirstResultOnly ==
    \A r \in Requests :
        (Done200(r) /\ ~ListMissingOrEmpty(upstream[r].json))
            => /\ response[r][1].status = 200
                   => response[r][1].body = Some(FieldMapping(FirstResult(r)))
               /\ response[r][1] = get_aptoide_app(fetch_from_aptoide(FirstOnly(r)), pydantic)

C4_Witness ==
    \E r \in Requests :
        /\ Done200(r)
        /\ ~ListMissingOrEmpty(upstream[r].json)
        /\ Len(upstream[r].json["datalist"]["list"]) = 2
        /\ upstream[r].json["datalist"]["list"][1] = TestApp
        /\ upstream[r].json["datalist"]["list"][2] # TestApp
        /\ response[r][1].status = 200
        /\ response[r][1].body[1]["size"] = Some("20 MB")
        /\ response[r][1].body[1]["downloads"] = Some("2M")
        /\ response[r][1].body[1]["developer_cn"] = Some(<<"D", "e", "v">>)
        /\ response[r][1].body[1]["organization"] = Some(<<"O", "r", "g">>)
        /\ response[r][1].body[1]["country"] = Some(<<"U", "S">>)

\* C9: a request without package_name ends with 422; its handler is not
\* invoked and it makes no outbound call.
C9_MissingParameterIs422 ==
    \A r \in Requests :
        (pc[r] # "idle" /\ param[r] = None)
            => /\ Done(r)
               /\ response[r] # None
               /\ response[r][1].status = 422
               /\ ~invoked[r]
               /\ sent[r] = <<>>
               /\ client[r] = None

C9_Witness ==
    \E r, q \in Requests :
        /\ Done(r) /\ param[r] = None /\ response[r][1].status = 422
        /\ invoked[q] /\ Len(sent[q]) = 1

InWithBlock(r) == pc[r] \in {"entered", "awaiting", "exiting"}

\* C10: each request's client is acquired and released within that request's
\* processing on every path: the open clients are those of the requests inside
\* their with block, a finished request's client is closed, and no two
\* requests hold the same client.
C10_ClientScopedToRequest ==
    /\ open = {client[r][1] : r \in {q \in Requests : InWithBlock(q)}}
    /\ \A r \in Requests :
           /\ (Done(r) /\ client[r] # None) => client[r][1] \notin open
           /\ (client[r] = None) <=> pc[r] \in {"idle", "handler"} \/ (Done(r) /\ ~invoked[r])
           /\ \A q \in Requests \ {r} : client[r] # None => client[q] # client[r]

C10_Witness ==
    /\ Done(1) /\ upstream[1].kind = "raised"
    /\ Done(2) /\ upstream[2].kind = "response" /\ upstream[2].status = 200
    /\ client[1] # None /\ client[2] # None
    /\ open = {}

----------------------------------------------------------------------------
(* Properties of the helper-level specification (SpecFn). *)

Applied(f) == fn = f /\ called

\* n / k rounded half to even, in exact integer arithmetic
RoundDiv(n, k) ==
    LET q == n \div k
        r == n % k
    IN  IF 2 * r > k \/ (2 * r = k /\ q % 2 = 1) THEN q + 1 ELSE q

\* what the download tiers give for a count d = [hi, lo] = hi * 10^9 + lo, exactly
ExactDownloads(d) ==
    IF d.hi > 0
    THEN ToString(IF 2 * d.lo > Billion \/ (2 * d.lo = Billion /\ d.hi % 2 = 1)
                  THEN d.hi + 1 ELSE d.hi) \o "B"
    ELSE IF d.lo \in 1..999 THEN ToString(d.lo)
    ELSE IF d.lo \in 1000..999999 THEN ToString(RoundDiv(d.lo, 1000)) \o "K"
    ELSE ToString(RoundDiv(d.lo, 1000000)) \o "M"

DownloadsAsStated ==
    IF arg = None \/ (arg[1].hi = 0 /\ arg[1].lo = 0) THEN ret = None
    ELSE ret = Some(ExactDownloads(arg[1]))

\* C5 as stated: for all counts D >= 0 format_downloads returns the tier's
\* exactly rounded shorthand.
C5_AllCounts == Applied("format_downloads") => DownloadsAsStated

\* C5 amended: the same for all counts D < 2^24 * 10^9.
C5_CountsBelowTwo24Billion ==
    (Applied("format_downloads") /\ (arg = None \/ arg[1].hi < Pow2(24)))
        => DownloadsAsStated

C5_Witness ==
    /\ Applied("format_downloads")
    /\ arg = Some([hi |-> 0, lo |-> 999500])
    /\ ret = Some("1000K")

\* the smallest k in 0..3 with b / 1024^k < 1024, or 4
ExactTier(b) ==
    IF b.hi = 0 /\ b.lo < 1024 THEN 0
    ELSE IF b.hi = 0 /\ b.lo < 1024 * 1024 THEN 1
    ELSE IF b.hi = 0 THEN 2
    ELSE IF b.hi < 1024 THEN 3
    ELSE 4

\* b / 1024^k rounded half to even for b = [hi, lo] = hi * 2^30 + lo, exactly
ExactPrefix(b, k) ==
    IF k = 0 THEN b.lo
    ELSE IF k = 1 THEN RoundDiv(b.lo, 1024)
    ELSE IF k = 2 THEN RoundDiv(b.lo, 1024 * 1024)
    ELSE IF k = 3
    THEN IF b.lo > Pow2(29) \/ (b.lo = Pow2(29) /\ b.hi % 2 = 1) THEN b.hi + 1 ELSE b.hi
    ELSE LET q == b.hi \div 1024
             r == b.hi % 1024
         IN  IF r > 512 \/ (r = 512 /\ (b.lo > 0 \/ q % 2 = 1)) THEN q + 1 ELSE q

UnitNames == <<"B", "KB", "MB", "GB", "TB">>

SizeAsStated ==
    IF arg = None \/ (arg[1].hi = 0 /\ arg[1].lo = 0) THEN ret = None
    ELSE ret = Some(ToString(ExactPrefix(arg[1], ExactTier(arg[1])))
                        \o " " \o UnitNames[ExactTier(arg[1]) + 1])

AllAbsent ==
    [developer_cn |-> None, organization |-> None, local |-> None,
     state_city |-> None, country |-> None]

NoOwner == arg = None \/ "owner" \notin DOMAIN arg[1]

\* C7 as stated: parse_certificate never fails, and an object without owner
\* and the owner "" both give the empty mapping.
C7_TotalAndEmptyMapping ==
    Applied("parse_certificate")
        => /\ ~ret.raised
           /\ (NoOwner \/ arg[1]["owner"] = <<>>) => ret.value = EmptyDict

\* C7 amended: parse_certificate never fails; no object or an object without
\* owner gives the empty mapping, and the owner "" gives the mapping of the five
\* fields, each absent.
C7_TotalEmptyOrAllAbsent ==
    Applied("parse_certificate")
        => /\ ~ret.raised
           /\ NoOwner => ret.value = EmptyDict
           /\ (~NoOwner /\ arg[1]["owner"] = <<>>) => ret.value = AllAbsent

C7_Witness ==
    /\ Applied("parse_certificate")
    /\ ~NoOwner
    /\ arg[1]["owner"] = <<"C", "=", "f", "=", "g">>
    /\ ~ret.raised
    /\ ret.value["country"] = Some(<<"f", "=", "g">>)

\* the segments of s: s[a..b] for a start a, up to the next comma
SegStarts(s) == {1} \cup {i + 1 : i \in {j \in 1..Len(s) : s[j] = ","}}

SegEnd(s, a) ==
    LET commas == {j \in a..Len(s) : s[j] = ","}
    IN  IF commas = {} THEN Len(s)
        ELSE (CHOOSE j \in commas : \A m \in commas : j <= m) - 1

\* s[a..b] without the whitespace at its ends
Trimmed(s, a, b) ==
    LET solid == {i \in a..b : s[i] \notin Whitespace}
    IN  IF solid = {} THEN <<>>
        ELSE SubSeq(s, CHOOSE i \in solid : \A m \in solid : i <= m,
                       CHOOSE i \in solid : \A m \in solid : i >= m)

\* the position of the first "=" of the segment starting at a, 0 if it has none
FirstEq(s, a) ==
    LET eqs == {i \in a..SegEnd(s, a) : s[i] = "="}
    IN  IF eqs = {} THEN 0 ELSE CHOOSE i \in eqs : \A m \in eqs : i <= m

\* the value the owner s gives key: that of the last segment with this key
ValueOfKey(s, key) ==
    LET hits == {a \in SegStarts(s) :
                    FirstEq(s, a) # 0 /\ Trimmed(s, a, FirstEq(s, a) - 1) = key}
    IN  IF hits = {} THEN None
        ELSE LET a == CHOOSE h \in hits : \A m \in hits : h >= m
             IN  Some(Trimmed(s, FirstEq(s, a) + 1, SegEnd(s, a)))

\* C8: the five fields are the trimmed values of the keys CN, O, L, ST, C among
\* the comma-separated segments that hold an "=", split at the first "="; a
\* key that does not occur is absent and the last occurrence of a key wins.
C8_FieldsFromOwner ==
    (Applied("parse_certificate") /\ ~NoOwner)
        => /\ ~ret.raised
           /\ ret.value = [developer_cn |-> ValueOfKey(arg[1]["owner"], <<"C", "N">>),
                           organization |-> ValueOfKey(arg[1]["owner"], <<"O">>),
                           local |-> ValueOfKey(arg[1]["owner"], <<"L">>),
                           state_city |-> ValueOfKey(arg[1]["owner"], <<"S", "T">>),
                           country |-> ValueOfKey(arg[1]["owner"], <<"C">>)]

C8_Witness ==
    /\ Applied("parse_certificate")
    /\ ~NoOwner
    /\ arg[1]["owner"] = <<"C", "=", "e", ",", "C", "=", "f", "=", "g">>
    /\ ret.value["country"] = Some(<<"f", "=", "g">>)
    /\ ret.value["developer_cn"] = None

====
